---- MODULE Spec2Model ----
(***************************************************************************)
(* Web3Lifecycle (keeper/lifecycle.py): the keeper's lifecycle supervisor. *)
(*                                                                         *)
(* Threads of the program that the model interleaves:                      *)
(*   - the main thread, running Web3Lifecycle.__exit__ (pc);               *)
(*   - one filter thread per on_block() registration, which delivers      *)
(*     block hashes to new_block_callback;                                 *)
(*   - the thread an AsyncCallback starts for the user's on-block callback;*)
(*   - the threading.Timer threads of every();                             *)
(*   - the signal handler.                                                 *)
(* The node (web3) is the environment: its peer count, its syncing flag    *)
(* and its block number change on their own.                               *)
(*                                                                         *)
(* AsyncCallback and the filter-thread registry are imported from the      *)
(* keeper package (lifecycle.py line 25); their bodies are not in          *)
(* lifecycle.py, they follow the design document sections 4.1 and 4.2.     *)
(***************************************************************************)
EXTENDS Integers, Sequences, FiniteSets

\* ---------------------------------------------------------------- bounds
MaxBlock == 2        \* the node's block number stays in 1..MaxBlock
MaxOnBlock == 1      \* on_block() registrations

\* Time is kept relative to the present: the age of the last block and the
\* delay each timer still has. The clock advances in jumps of these lengths
\* (a slow tick, or the machine put to sleep and woken up, lifecycle.py lines
\* 192-193): one that makes a fresh timestamp exactly 300 seconds old, and
\* one that makes it older.
Jumps == {300, 301}
\* frequency_in_seconds arguments given to every()
Frequencies == {150}

\* ----------------------------------------------------- program constants
StaleThreshold == 300    \* line 197
FatalExitCode == 10      \* line 71
CleanExitCode == 0       \* line 71
AccountExitCode == -1    \* line 93
TickInterval == 1        \* line 167
WarmUpDelay == 1         \* line 148
NoCallback == 0          \* self._on_block_callback = None (line 41)

VARIABLES
    pc,                     \* position of the main thread in __exit__
    exit_code,              \* <<>> while running, <<c>> once exit(c) was called
    startup_function,       \* TRUE when on_startup() registered a hook
    shutdown_function,      \* TRUE when on_shutdown() registered a hook
    terminated_internally,
    terminated_externally,
    fatal_termination,
    at_least_one_every,
    last_block_time,        \* <<>> for None, <<a>> for a timestamp a seconds before now
    on_block_callback,      \* index into callbacks, NoCallback for None
    callbacks,              \* AsyncCallback objects: number of running invocations
    filter_threads,         \* the registry: set of registered filter ids
    filter_alive,           \* filter id -> its thread is alive
    peerCount,              \* node: net.peerCount
    syncing,                \* node: eth.syncing
    blockNumber,            \* node: eth.blockNumber
    handlers_installed,     \* signal.signal() done (lines 160-161)
    tasks,                  \* the every() task: frequency, delays of its pending timers,
                            \* running func() calls, whether the last callback() raised
    calls,                  \* calls the main thread made out of __exit__, in order
    reason,                 \* the warning or fatal line the main thread logged: why it stops
    last_event              \* the last delivery of a filter thread and what became of it

vars == <<pc, exit_code, startup_function, shutdown_function, terminated_internally,
          terminated_externally, fatal_termination, at_least_one_every, last_block_time,
          on_block_callback, callbacks, filter_threads, filter_alive,
          peerCount, syncing, blockNumber, handlers_installed, tasks,
          calls, reason, last_event>>

lifecycle_vars == <<startup_function, shutdown_function, terminated_internally,
                    terminated_externally, fatal_termination, at_least_one_every,
                    last_block_time, on_block_callback>>
node_vars == <<peerCount, syncing, blockNumber>>
main_vars == <<pc, exit_code, handlers_installed, calls, reason>>
filter_vars == <<filter_threads, filter_alive>>

\* The process is alive until exit() is called.
Alive == pc # "terminated"

\* The main thread has not left the supervisory loop yet.
BeforeShutdown ==
    pc \in {"constructed", "check_account", "wait_peers", "wait_sync", "startup",
            "main_loop", "sleep", "tick"}

\* last_event: the last block a filter thread delivered.
\*   number     its block number (0: nothing delivered yet)
\*   processing whether it was handed to the user's callback ("Processing
\*              block" was logged) or ignored (one of the "Ignoring block" lines)
\*   max_number the largest block number delivered so far
NoEvent == [number |-> 0, processing |-> FALSE, max_number |-> 0]

Init ==
    /\ pc = "constructed"
    /\ exit_code = <<>>
    /\ startup_function = FALSE
    /\ shutdown_function = FALSE
    /\ terminated_internally = FALSE
    /\ terminated_externally = FALSE
    /\ fatal_termination = FALSE
    /\ at_least_one_every = FALSE
    /\ last_block_time = <<>>
    /\ on_block_callback = NoCallback
    /\ callbacks = <<>>
    /\ filter_threads = {}
    /\ filter_alive = <<>>
    /\ peerCount = 0
    /\ syncing \in BOOLEAN
    /\ blockNumber = 1
    /\ handlers_installed = FALSE
    /\ tasks = <<>>
    /\ calls = <<>>
    /\ reason = "none"
    /\ last_event = NoEvent

\* ------------------------------------------------- registration (with-block)
\* on_startup(callback), lines 95-96
on_startup ==
    /\ pc = "constructed"
    /\ startup_function' = TRUE
    /\ UNCHANGED <<shutdown_function, terminated_internally, terminated_externally,
                   fatal_termination, at_least_one_every, last_block_time,
                   on_block_callback, callbacks, filter_vars, node_vars, main_vars,
                   tasks, last_event>>

\* on_shutdown(callback), lines 98-99
on_shutdown ==
    /\ pc = "constructed"
    /\ shutdown_function' = TRUE
    /\ UNCHANGED <<startup_function, terminated_internally, terminated_externally,
                   fatal_termination, at_least_one_every, last_block_time,
                   on_block_callback, callbacks, filter_vars, node_vars, main_vars,
                   tasks, last_event>>

\* register_filter_thread(block_filter): adds the filter to the registry.
register_filter_thread(f) == filter_threads \cup {f}

\* on_block(callback), lines 102-131: a new AsyncCallback replaces
\* self._on_block_callback, a new 'latest' filter starts to watch and is
\* registered. The filter delivers to new_block_callback from then on.
on_block ==
    /\ pc = "constructed"
    /\ Len(callbacks) < MaxOnBlock
    /\ callbacks' = Append(callbacks, 0)
    /\ on_block_callback' = Len(callbacks) + 1
    /\ filter_alive' = Append(filter_alive, TRUE)
    /\ filter_threads' = register_filter_thread(Len(filter_alive) + 1)
    /\ UNCHANGED <<startup_function, shutdown_function, terminated_internally,
                   terminated_externally, fatal_termination, at_least_one_every,
                   last_block_time, node_vars, main_vars, tasks, last_event>>

\* on_block(callback) called once more than the bound of on_block allows, to
\* follow what a repeated registration does to the handles created before.
on_block_again ==
    /\ pc = "constructed"
    /\ Len(callbacks) = MaxOnBlock
    /\ callbacks' = Append(callbacks, 0)
    /\ on_block_callback' = Len(callbacks) + 1
    /\ filter_alive' = Append(filter_alive, TRUE)
    /\ filter_threads' = register_filter_thread(Len(filter_alive) + 1)
    /\ UNCHANGED <<startup_function, shutdown_function, terminated_internally,
                   terminated_externally, fatal_termination, at_least_one_every,
                   last_block_time, node_vars, main_vars, tasks, last_event>>

\* setup_timer(delay), lines 135-138: one more threading.Timer of the task,
\* due delay seconds from now.
setup_timer(task, delay) == [task EXCEPT !.timers = Append(@, delay)]

\* every(frequency_in_seconds, callback), lines 134-149
every(frequency_in_seconds) ==
    /\ pc = "constructed"
    /\ tasks = <<>>
    /\ tasks' = Append(tasks, setup_timer([frequency |-> frequency_in_seconds,
                                           timers |-> <<>>, running |-> 0,
                                           raised |-> FALSE], WarmUpDelay))
    /\ at_least_one_every' = TRUE
    /\ UNCHANGED <<startup_function, shutdown_function, terminated_internally,
                   terminated_externally, fatal_termination, last_block_time,
                   on_block_callback, callbacks, filter_vars, node_vars, main_vars,
                   last_event>>

\* ------------------------------------------------------ main thread: __exit__
\* exit(code): the process ends; daemon threads end with it.
exit(code) ==
    /\ exit_code' = <<code>>
    /\ calls' = Append(calls, "exit")
    /\ pc' = "terminated"

\* The with-block is left and __exit__ starts, lines 46-51.
Enter ==
    /\ pc = "constructed"
    /\ pc' = "check_account"
    /\ UNCHANGED <<exit_code, handlers_installed, calls, reason,
                   lifecycle_vars, callbacks, filter_vars, node_vars, tasks, last_event>>

\* _check_account_unlocked, were the failure only logged.
_check_account_unlocked_without_exit(signed) ==
    /\ pc = "check_account"
    /\ pc' = "wait_peers"
    /\ reason' = IF signed THEN reason ELSE "account_not_unlocked"
    /\ UNCHANGED <<exit_code, calls, handlers_installed, lifecycle_vars, callbacks,
                   filter_vars, node_vars, tasks, last_event>>

\* _check_account_unlocked(), lines 52 and 87-93
_check_account_unlocked(signed) ==
    /\ pc = "check_account"
    /\ IF signed
         THEN /\ pc' = "wait_peers"
              /\ UNCHANGED <<exit_code, calls, reason>>
         ELSE /\ reason' = "account_not_unlocked"
              /\ exit(AccountExitCode)
    /\ UNCHANGED <<handlers_installed, lifecycle_vars, callbacks,
                   filter_vars, node_vars, tasks, last_event>>

\* _wait_for_init(), lines 75-78: poll until the node has a peer.
_wait_for_peers ==
    /\ pc = "wait_peers"
    /\ pc' = IF peerCount = 0 THEN "wait_peers" ELSE "wait_sync"
    /\ UNCHANGED <<exit_code, handlers_installed, calls, reason,
                   lifecycle_vars, callbacks, filter_vars, node_vars, tasks, last_event>>

\* _wait_for_sync, were the node's syncing state not waited for.
_wait_for_sync_without_polling ==
    /\ pc = "wait_sync"
    /\ pc' = "startup"
    /\ UNCHANGED <<exit_code, handlers_installed, calls, reason,
                   lifecycle_vars, callbacks, filter_vars, node_vars, tasks, last_event>>

\* _wait_for_init(), lines 82-85: poll until the node is synced.
_wait_for_sync ==
    /\ pc = "wait_sync"
    /\ pc' = IF syncing THEN "wait_sync" ELSE "startup"
    /\ UNCHANGED <<exit_code, handlers_installed, calls, reason,
                   lifecycle_vars, callbacks, filter_vars, node_vars, tasks, last_event>>

\* lines 55-57: the startup hook, if any.
Startup ==
    /\ pc = "startup"
    /\ calls' = IF startup_function THEN Append(calls, "startup_function") ELSE calls
    /\ pc' = "main_loop"
    /\ UNCHANGED <<exit_code, handlers_installed, reason,
                   lifecycle_vars, callbacks, filter_vars, node_vars, tasks, last_event>>

\* -------------------------------------------- the registry (keeper package)
any_filter_thread_present == filter_threads # {}

\* vacuously true for an empty registry
all_filter_threads_alive == \A f \in filter_threads : filter_alive[f]

\* stop_all_filter_threads(): every registered filter is stopped (its thread
\* is dead from then on) and the registry is cleared.
stop_all_filter_threads ==
    /\ filter_alive' = [f \in DOMAIN filter_alive |->
                            IF f \in filter_threads THEN FALSE ELSE filter_alive[f]]
    /\ filter_threads' = {}

\* ------------------------------------------------- main thread: _main_loop
\* LoopCondition, were the periodic tasks not counted.
LoopCondition_watchers_only == any_filter_thread_present

\* line 166: the condition of the supervisory loop.
LoopCondition == any_filter_thread_present \/ at_least_one_every

\* line 166-167: where the main thread goes when the loop's condition is
\* evaluated: into time.sleep(1), or past the loop.
LoopTest == IF LoopCondition THEN "sleep" ELSE "shutdown"

\* lines 160-167: the handlers of SIGINT and SIGTERM are installed and the
\* loop's condition is evaluated for the first time.
_main_loop ==
    /\ pc = "main_loop"
    /\ handlers_installed' = TRUE
    /\ pc' = LoopTest
    /\ UNCHANGED <<exit_code, calls, reason, lifecycle_vars, callbacks,
                   filter_vars, node_vars, tasks, last_event>>

\* IsStale, were the comparison with the threshold not strict.
IsStale_at_threshold(last) == last # <<>> /\ last[1] >= StaleThreshold

\* line 197: a last block time exists and is more than 300 seconds old.
IsStale(last) == last # <<>> /\ last[1] > StaleThreshold

\* LoopVerdict, were the two termination flags not looked at.
LoopVerdict_deaf_to_requests ==
    IF ~all_filter_threads_alive THEN "filter_thread_dead"
    ELSE IF IsStale(last_block_time) /\ ~syncing THEN "no_new_blocks"
    ELSE "continue"

\* LoopVerdict, were the liveness of the filter threads not checked.
LoopVerdict_without_liveness_check ==
    IF terminated_internally THEN "asked_for_termination"
    ELSE IF terminated_externally THEN "sigint_sigterm"
    ELSE IF IsStale(last_block_time) /\ ~syncing THEN "no_new_blocks"
    ELSE "continue"

\* LoopVerdict, were the fatal checks made before the termination checks.
LoopVerdict_fatal_checks_first ==
    IF ~all_filter_threads_alive THEN "filter_thread_dead"
    ELSE IF IsStale(last_block_time) /\ ~syncing THEN "no_new_blocks"
    ELSE IF terminated_internally THEN "asked_for_termination"
    ELSE IF terminated_externally THEN "sigint_sigterm"
    ELSE "continue"

\* lines 170-201: what one tick of the loop decides, as the log line of the
\* break it takes ("continue" when it takes none).
LoopVerdict ==
    IF terminated_internally THEN "asked_for_termination"
    ELSE IF terminated_externally THEN "sigint_sigterm"
    ELSE IF ~all_filter_threads_alive THEN "filter_thread_dead"
    ELSE IF IsStale(last_block_time) /\ ~syncing THEN "no_new_blocks"
    ELSE "continue"

\* lines 185 and 200: the breaks that set fatal_termination.
FatalVerdicts == {"filter_thread_dead", "no_new_blocks"}

\* lines 166-201: time.sleep(1) has returned and the tick's checks run; at
\* the end of the body the loop's condition is evaluated again.
Tick ==
    /\ pc = "tick"
    /\ IF LoopVerdict = "continue"
         THEN /\ pc' = LoopTest
              /\ UNCHANGED <<reason, fatal_termination>>
         ELSE /\ pc' = "shutdown"
              /\ reason' = LoopVerdict
              /\ fatal_termination' = (fatal_termination \/ LoopVerdict \in FatalVerdicts)
    /\ UNCHANGED <<exit_code, handlers_installed, calls, startup_function,
                   shutdown_function, terminated_internally, terminated_externally,
                   at_least_one_every, last_block_time, on_block_callback, callbacks,
                   filter_vars, node_vars, tasks, last_event>>

\* ------------------------------------------ main thread: shutdown sequence
\* AfterStep, were the wait for the callback left out.
AfterStep_wait_skipped(step) ==
    CASE step = "shutdown" -> "shutdown_hook"
      [] step = "wait_callback" -> "shutdown_hook"
      [] step = "shutdown_hook" -> "exit"

\* AfterStep, were the shutdown hook called before the wait for the callback.
AfterStep_hook_before_wait(step) ==
    CASE step = "shutdown" -> "shutdown_hook"
      [] step = "shutdown_hook" -> "wait_callback"
      [] step = "wait_callback" -> "exit"

\* lines 59-71: the order of the steps that follow _main_loop().
AfterStep(step) ==
    CASE step = "shutdown" -> "wait_callback"
      [] step = "wait_callback" -> "shutdown_hook"
      [] step = "shutdown_hook" -> "exit"

\* lines 59-62
StopFilters ==
    /\ pc = "shutdown"
    /\ IF any_filter_thread_present
         THEN /\ stop_all_filter_threads
              /\ calls' = Append(calls, "stop_all_filter_threads")
         ELSE UNCHANGED <<filter_vars, calls>>
    /\ pc' = AfterStep("shutdown")
    /\ UNCHANGED <<exit_code, handlers_installed, reason, lifecycle_vars,
                   callbacks, node_vars, tasks, last_event>>

\* AsyncCallback.wait() returns when no invocation is in flight.
wait_returns(h) == callbacks[h] = 0

\* lines 63-65: wait() blocks the main thread until it returns.
WaitCallback ==
    /\ pc = "wait_callback"
    /\ IF on_block_callback # NoCallback
         THEN /\ wait_returns(on_block_callback)
              /\ calls' = Append(calls, "wait")
         ELSE UNCHANGED calls
    /\ pc' = AfterStep("wait_callback")
    /\ UNCHANGED <<exit_code, handlers_installed, reason, lifecycle_vars,
                   callbacks, filter_vars, node_vars, tasks, last_event>>

\* lines 66-69
ShutdownHook ==
    /\ pc = "shutdown_hook"
    /\ calls' = IF shutdown_function THEN Append(calls, "shutdown_function") ELSE calls
    /\ pc' = AfterStep("shutdown_hook")
    /\ UNCHANGED <<exit_code, handlers_installed, reason, lifecycle_vars,
                   callbacks, filter_vars, node_vars, tasks, last_event>>

\* ExitStatus, were the fatal flag not looked at.
ExitStatus_always_clean(fatal) == CleanExitCode

\* line 71: the exit status
ExitStatus(fatal) == IF fatal THEN FatalExitCode ELSE CleanExitCode

\* Exit, were the periodic callbacks waited for before the process exits.
Exit_after_periodic_work ==
    /\ pc = "exit"
    /\ \A t \in DOMAIN tasks : tasks[t].running = 0
    /\ exit(ExitStatus(fatal_termination))
    /\ UNCHANGED <<handlers_installed, reason, lifecycle_vars,
                   callbacks, filter_vars, node_vars, tasks, last_event>>

\* lines 70-71
Exit ==
    /\ pc = "exit"
    /\ exit(ExitStatus(fatal_termination))
    /\ UNCHANGED <<handlers_installed, reason, lifecycle_vars,
                   callbacks, filter_vars, node_vars, tasks, last_event>>

\* --------------------------------------------------------- signal handler
\* sigint_sigterm_handler, were the flag flipped by every signal.
sigint_sigterm_handler_flipping ==
    /\ Alive
    /\ handlers_installed
    /\ terminated_externally' = ~terminated_externally
    /\ UNCHANGED <<startup_function, shutdown_function, terminated_internally,
                   fatal_termination, at_least_one_every, last_block_time,
                   on_block_callback, callbacks, filter_vars, node_vars, main_vars,
                   tasks, last_event>>

\* sigint_sigterm_handler(sig, frame), lines 151-156
sigint_sigterm_handler ==
    /\ Alive
    /\ handlers_installed
    /\ terminated_externally' = TRUE
    /\ UNCHANGED <<startup_function, shutdown_function, terminated_internally,
                   fatal_termination, at_least_one_every, last_block_time,
                   on_block_callback, callbacks, filter_vars, node_vars, main_vars,
                   tasks, last_event>>

\* --------------------------------------- AsyncCallback (keeper package)
\* trigger(on_start, on_finish) returns True, and starts the wrapped
\* function, exactly when no invocation of this object is still running.
trigger_returns(h) == callbacks[h] = 0

\* ------------------------------------------ filter thread: new_block_callback
\* IsLatest, were the node's syncing state not looked at.
IsLatest_whether_syncing_or_not(block_number) == block_number = blockNumber

\* IsLatest, were a block below the node's latest let through.
IsLatest_or_older(block_number) == ~syncing /\ block_number <= blockNumber

\* lines 107-109: the node is not syncing and the block is the node's latest.
IsLatest(block_number) == ~syncing /\ block_number = blockNumber

\* lines 107-123: the log line new_block_callback ends with.
Outcome(block_number) ==
    IF syncing THEN "node_syncing"
    ELSE IF block_number # blockNumber THEN "newer_block_available"
    ELSE IF trigger_returns(on_block_callback) THEN "processing"
    ELSE "previous_callback_running"

\* Starts, were the result of trigger() ignored and the callback called for
\* every latest block.
Starts_ignoring_busy(block_number) == IsLatest(block_number)

\* lines 109-116: the user's callback is started for this block exactly when
\* the block is the latest and trigger() accepted it.
Starts(block_number) == IsLatest(block_number) /\ trigger_returns(on_block_callback)

\* new_block_callback(block_hash), lines 103-123, run by filter thread f for
\* a block of the given number.
new_block_callback(f, block_number) ==
    /\ Alive
    /\ f \in filter_threads
    /\ filter_alive[f]
    /\ last_block_time' = <<0>>
    /\ callbacks' = IF Starts(block_number)
                      THEN [callbacks EXCEPT ![on_block_callback] = @ + 1]
                      ELSE callbacks
    /\ last_event' = [number |-> block_number,
                      processing |-> (Outcome(block_number) = "processing"),
                      max_number |-> IF block_number > last_event.max_number
                                       THEN block_number ELSE last_event.max_number]
    /\ UNCHANGED <<startup_function, shutdown_function, terminated_internally,
                   terminated_externally, fatal_termination, at_least_one_every,
                   on_block_callback, filter_vars, node_vars, main_vars, tasks>>

\* The thread of AsyncCallback h ends: the user's callback returned or raised
\* (an error is caught), on_finish ran, the object is idle again. The callback
\* may have asked for termination (terminated_internally = True).
CallbackEnds(h, asks) ==
    /\ Alive
    /\ h \in DOMAIN callbacks
    /\ callbacks[h] > 0
    /\ callbacks' = [callbacks EXCEPT ![h] = @ - 1]
    /\ UNCHANGED last_event
    /\ terminated_internally' = (terminated_internally \/ asks)
    /\ UNCHANGED <<startup_function, shutdown_function, terminated_externally,
                   fatal_termination, at_least_one_every, last_block_time,
                   on_block_callback, filter_vars, node_vars, main_vars, tasks>>

\* An exception in the filter's thread (lines 179-182): the thread is dead and
\* delivers nothing any more.
FilterThreadDies(f) ==
    /\ Alive
    /\ f \in filter_threads
    /\ filter_alive[f]
    /\ filter_alive' = [filter_alive EXCEPT ![f] = FALSE]
    /\ UNCHANGED <<filter_threads, lifecycle_vars, callbacks, node_vars, main_vars, tasks, last_event>>

\* ------------------------------------------------------ timer threads: every
\* d seconds later, for a timer with delay r left.
Left(r, d) == IF r > d THEN r - d ELSE 0

\* The threading.Timer threads of a task d seconds later (lines 136-138): a
\* timer whose delay has passed has started func(), which calls callback()
\* (lines 140-142); the others have d seconds less to wait.
TimersRun(task, d) ==
    [task EXCEPT
        !.timers = SelectSeq([i \in DOMAIN @ |-> Left(@[i], d)], LAMBDA r : r > 0),
        !.running = @ + Cardinality({i \in DOMAIN task.timers : task.timers[i] <= d})]

\* func_reschedules, were line 146 also reached after the except branch.
func_reschedules_twice_when_raised(task, raised) ==
    IF raised THEN setup_timer(setup_timer(task, task.frequency), task.frequency)
              ELSE setup_timer(task, task.frequency)

\* func_reschedules, were the timer set up on the normal path only.
func_reschedules_unless_raised(task, raised) ==
    IF raised THEN task ELSE setup_timer(task, task.frequency)

\* lines 141-146: what func() does once callback() returned or raised.
func_reschedules(task, raised) == setup_timer(task, task.frequency)

\* callback() of task t ends, by returning or by raising (lines 141-146); it
\* may have asked for termination.
TimerFuncEnds(t, raised, asks) ==
    /\ Alive
    /\ t \in DOMAIN tasks
    /\ tasks[t].running > 0
    /\ tasks' = [tasks EXCEPT ![t] =
                    [func_reschedules(@, raised) EXCEPT
                        !.running = @ - 1,
                        !.raised = raised]]
    /\ terminated_internally' = (terminated_internally \/ asks)
    /\ UNCHANGED <<startup_function, shutdown_function, terminated_externally,
                   fatal_termination, at_least_one_every, last_block_time,
                   on_block_callback, callbacks, filter_vars, node_vars, main_vars, last_event>>

\* ------------------------------------------------------------- environment
\* net.peerCount is read by _wait_for_init only (lines 75-77): its changes
\* are followed while the main thread polls it.
PeerCountChanges ==
    /\ pc = "wait_peers"
    /\ peerCount' = 1 - peerCount
    /\ UNCHANGED <<syncing, blockNumber, lifecycle_vars, callbacks,
                   filter_vars, main_vars, tasks, last_event>>

\* eth.syncing is read by _wait_for_init (lines 82-84), by new_block_callback
\* (line 107) and by the loop (line 198): its changes are followed until the
\* filters are stopped.
SyncingChanges ==
    /\ BeforeShutdown \/ pc = "shutdown"
    /\ syncing' = ~syncing
    /\ UNCHANGED <<peerCount, blockNumber, lifecycle_vars, callbacks,
                   filter_vars, main_vars, tasks, last_event>>

\* eth.blockNumber is read by new_block_callback only (line 108).
NewBlock ==
    /\ BeforeShutdown \/ pc = "shutdown"
    /\ blockNumber < MaxBlock
    /\ blockNumber' = blockNumber + 1
    /\ UNCHANGED <<peerCount, syncing, lifecycle_vars, callbacks,
                   filter_vars, main_vars, tasks, last_event>>

\* d seconds later, for a timestamp of age a: ages above the threshold are
\* all alike to the program (line 197).
Older(a, d) == IF a + d > StaleThreshold THEN StaleThreshold + 1 ELSE a + d

\* d seconds pass. Every jump is at least TickInterval long, so a main thread
\* that is in time.sleep(1) (line 167) has slept long enough and wakes up.
AdvanceClock(d) ==
    /\ Alive
    /\ d >= TickInterval
    /\ last_block_time' = [i \in DOMAIN last_block_time |-> Older(last_block_time[i], d)]
    /\ tasks' = [t \in DOMAIN tasks |-> TimersRun(tasks[t], d)]
    /\ pc' = IF pc = "sleep" THEN "tick" ELSE pc
    /\ UNCHANGED <<exit_code, handlers_installed, calls, reason, startup_function,
                   shutdown_function, terminated_internally, terminated_externally,
                   fatal_termination, at_least_one_every, on_block_callback,
                   callbacks, filter_vars, node_vars, last_event>>

\* ------------------------------------------------------------ specification
Next ==
    \/ on_startup
    \/ on_shutdown
    \/ on_block
    \/ \E f \in Frequencies : every(f)
    \/ Enter
    \/ \E signed \in BOOLEAN : _check_account_unlocked(signed)
    \/ _wait_for_peers
    \/ _wait_for_sync
    \/ Startup
    \/ _main_loop
    \/ Tick
    \/ StopFilters
    \/ WaitCallback
    \/ ShutdownHook
    \/ Exit
    \/ sigint_sigterm_handler
    \/ \E f \in DOMAIN filter_alive, n \in 1..blockNumber : new_block_callback(f, n)
    \/ \E h \in DOMAIN callbacks, asks \in BOOLEAN : CallbackEnds(h, asks)
    \/ \E f \in DOMAIN filter_alive : FilterThreadDies(f)
    \/ \E t \in DOMAIN tasks, raised \in BOOLEAN, asks \in BOOLEAN :
            TimerFuncEnds(t, raised, asks)
    \/ PeerCountChanges
    \/ SyncingChanges
    \/ NewBlock
    \/ \E d \in Jumps : AdvanceClock(d)

Spec == Init /\ [][Next]_vars

\* The program with one more on_block() registration than Spec follows.
NextRepeated == Next \/ on_block_again

RepeatSpec == Init /\ [][NextRepeated]_vars

\* Time passes: the clock does not stop while the process lives, so a sleeping
\* main thread and a waiting threading.Timer thread are woken up in the end.
FairSpec == Spec /\ WF_vars(\E d \in Jumps : AdvanceClock(d))

\* Time passes, the main thread is scheduled whenever it can take its next
\* step from the loop on (the shutdown hook returns), and a running on-block
\* callback comes to an end.
LiveSpec ==
    /\ Spec
    /\ WF_vars(\E d \in Jumps : AdvanceClock(d))
    /\ WF_vars(Tick)
    /\ WF_vars(StopFilters)
    /\ WF_vars(WaitCallback)
    /\ WF_vars(ShutdownHook)
    /\ WF_vars(Exit)
    /\ WF_vars(\E h \in DOMAIN callbacks, asks \in BOOLEAN : CallbackEnds(h, asks))

\* ------------------------------------------------------------------ claims
\* An invocation of AsyncCallback h starts in this step.
Started(h) == callbacks'[h] > callbacks[h]

\* A filter thread delivers a block in this step and it is ignored.
Ignored == last_event' # last_event /\ ~last_event'.processing

\* C1: single-flight. Whatever the filter threads deliver and however the
\* deliveries interleave with the running callback, an AsyncCallback never has
\* more than one invocation of the on-block callback in progress.
C1_SingleFlight == \A h \in DOMAIN callbacks : callbacks[h] <= 1

\* A block was handed to the callback, which is still running.
C1_Witness ==
    /\ on_block_callback # NoCallback
    /\ callbacks[on_block_callback] = 1
    /\ last_event.processing

\* C2: drop-if-busy, no queue. An invocation starts only in the step that
\* delivers a latest block to an idle AsyncCallback (trigger() returned True);
\* a delivery that is ignored, in particular one that finds the previous
\* invocation still running, starts nothing, then or later.
C2_DropIfBusy ==
    [][/\ \A h \in DOMAIN callbacks :
            Started(h) => /\ h = on_block_callback
                          /\ callbacks[h] = 0
                          /\ last_event'.processing
                          /\ last_event'.number = blockNumber
       /\ Ignored => callbacks' = callbacks]_vars

\* A latest block was delivered after the one being processed and was ignored,
\* the callback is still running.
C2_Witness ==
    /\ on_block_callback # NoCallback
    /\ callbacks[on_block_callback] = 1
    /\ ~last_event.processing
    /\ last_event.number = last_event.max_number

\* The elements of a sequence.
Range(seq) == {seq[i] : i \in DOMAIN seq}

\* The calls of the shutdown sequence the main thread made so far, in order.
ShutdownCalls == SelectSeq(calls, LAMBDA c : c # "startup_function")

\* The place of a call in the shutdown sequence.
Rank(c) ==
    CASE c = "stop_all_filter_threads" -> 1
      [] c = "wait" -> 2
      [] c = "shutdown_function" -> 3
      [] c = "exit" -> 4

\* The process ended through the shutdown sequence (not by the account check).
CleanlyEnded == pc = "terminated" /\ reason # "account_not_unlocked"

\* C3: shutdown ordering. No step of the shutdown sequence runs before the
\* loop is left; then the steps run in the order stop-all, wait, shutdown
\* hook, exit, each at most once and each only after the previous one is over;
\* stop-all runs exactly when a filter is registered, wait exactly when a
\* callback handle exists, the hook exactly when one is set.
C3_ShutdownOrder ==
    /\ \A i, j \in DOMAIN ShutdownCalls :
            i < j => Rank(ShutdownCalls[i]) < Rank(ShutdownCalls[j])
    /\ BeforeShutdown => ShutdownCalls = <<>>
    /\ pc = "wait_callback" => ("stop_all_filter_threads" \in Range(calls)) = (filter_alive # <<>>)
    /\ pc = "shutdown_hook" => ("wait" \in Range(calls)) = (on_block_callback # NoCallback)
    /\ pc = "exit" => ("shutdown_function" \in Range(calls)) = shutdown_function
    /\ CleanlyEnded =>
            /\ ("stop_all_filter_threads" \in Range(calls)) = (filter_alive # <<>>)
            /\ ("wait" \in Range(calls)) = (on_block_callback # NoCallback)
            /\ ("shutdown_function" \in Range(calls)) = shutdown_function
            /\ calls[Len(calls)] = "exit"

\* A run in which all four steps were taken.
C3_Witness ==
    /\ pc = "terminated"
    /\ ShutdownCalls = <<"stop_all_filter_threads", "wait", "shutdown_function", "exit">>

\* C4: exit status. A process that ends through the shutdown sequence exits
\* with 10 exactly when fatal_termination was set, which is exactly when the
\* loop broke on a dead filter thread or on staleness, and with 0 otherwise,
\* the run without any filter or periodic task included.
C4_ExitStatus ==
    CleanlyEnded =>
        /\ fatal_termination = (reason \in {"filter_thread_dead", "no_new_blocks"})
        /\ exit_code = IF fatal_termination THEN <<10>> ELSE <<0>>
        /\ (filter_alive = <<>> /\ ~at_least_one_every) => exit_code = <<0>> /\ reason = "none"

\* The loop broke on staleness and the process exited with the fatal status.
C4_Witness == pc = "terminated" /\ reason = "no_new_blocks" /\ exit_code = <<10>>

\* The main thread runs the checks of one tick in this step.
Ticks == pc = "tick" /\ pc' # "tick"

\* A registered filter thread is dead.
SomeFilterDead == \E f \in filter_threads : ~filter_alive[f]

\* The last block time exists and is more than 300 seconds old.
BlocksOverdue == last_block_time # <<>> /\ last_block_time[1] > 300

\* No termination was asked for, by the keeper logic or by a signal.
NotAsked == ~terminated_internally /\ ~terminated_externally

\* C5: fatal path. The tick whose liveness check (line 183) finds a registered
\* filter thread dead leaves the loop with fatal_termination set, and the
\* process then exits with status 10.
C5_DeadFilterIsFatal ==
    /\ [][(Ticks /\ NotAsked /\ SomeFilterDead) =>
              /\ pc' = "shutdown"
              /\ fatal_termination'
              /\ reason' = "filter_thread_dead"]_vars
    /\ [](reason = "filter_thread_dead" =>
              /\ fatal_termination
              /\ pc = "terminated" => exit_code = <<10>>)

\* The loop broke on a dead filter thread and the process exited with 10.
C5_Witness == pc = "terminated" /\ reason = "filter_thread_dead" /\ exit_code = <<10>>

\* C6: staleness path. At a tick that gets as far as the staleness check: a
\* last block time more than 300 seconds old, with the node not syncing, leaves
\* the loop with fatal_termination set; with the node syncing, or with no last
\* block time, or with one at most 300 seconds old, the tick sets nothing and
\* the loop goes on.
C6_Staleness ==
    [][(Ticks /\ NotAsked /\ ~SomeFilterDead) =>
          IF BlocksOverdue /\ ~syncing
            THEN /\ pc' = "shutdown"
                 /\ fatal_termination'
                 /\ reason' = "no_new_blocks"
            ELSE /\ pc' = "sleep"
                 /\ UNCHANGED <<fatal_termination, reason, terminated_internally,
                                terminated_externally>>]_vars

\* The loop has just broken on staleness.
C6_Witness ==
    /\ pc = "shutdown"
    /\ reason = "no_new_blocks"
    /\ fatal_termination
    /\ BlocksOverdue

\* C7: user-requested termination. A tick that finds terminated_internally or
\* terminated_externally set leaves the loop without setting
\* fatal_termination, whether or not a filter thread is dead or the last block
\* is overdue at that tick; the process then runs the shutdown sequence and
\* exits with status 0.
C7_CleanTermination ==
    /\ [][(Ticks /\ ~NotAsked) =>
              /\ pc' = "shutdown"
              /\ ~fatal_termination'
              /\ reason' = IF terminated_internally THEN "asked_for_termination"
                                                    ELSE "sigint_sigterm"]_vars
    /\ [](reason \in {"asked_for_termination", "sigint_sigterm"} =>
              /\ ~fatal_termination
              /\ ~BeforeShutdown
              /\ pc = "terminated" => exit_code = <<0>>)

\* The loop has just been left because termination was asked for, with a
\* filter thread dead and the last block overdue: fatal_termination is not set.
C7_Witness ==
    /\ pc = "shutdown"
    /\ reason = "asked_for_termination"
    /\ ~fatal_termination
    /\ SomeFilterDead
    /\ BlocksOverdue
    /\ ~syncing

\* C8: precondition failure. The account check either passes and changes
\* nothing, or it ends the process at once with status -1: no peer or sync
\* wait, no startup hook, no loop, no stop-all, no wait for the callback and
\* no shutdown hook are run, before or after.
C8_AccountCheckAborts ==
    /\ [][(pc = "check_account" /\ pc' # pc) =>
              \/ /\ pc' = "wait_peers"
                 /\ UNCHANGED <<reason, exit_code, calls>>
              \/ /\ pc' = "terminated"
                 /\ reason' = "account_not_unlocked"
                 /\ exit_code' = <<-1>>]_vars
    /\ [](reason = "account_not_unlocked" =>
              /\ pc = "terminated"
              /\ exit_code = <<-1>>
              /\ calls = <<"exit">>
              /\ ~handlers_installed)
    /\ [](exit_code = <<-1>> => reason = "account_not_unlocked")

\* The account check failed with both hooks and a filter registered: the
\* process is over, no hook was called and the filter was not stopped.
C8_Witness ==
    /\ pc = "terminated"
    /\ reason = "account_not_unlocked"
    /\ startup_function
    /\ shutdown_function
    /\ filter_threads # {}

\* C9 as stated: the callback is invoked only for an event whose number is a
\* strictly new maximum, above every number delivered before (so that a
\* duplicate is dropped).
C9_StrictlyNewMaximum ==
    [][\A h \in DOMAIN callbacks :
          Started(h) => last_event'.number > last_event.max_number]_vars

\* C9, amended: the callback is invoked only for an event whose number is the
\* node's current block number when the event is handled, the node not
\* syncing; an event whose number is below the node's current block number
\* is ignored and starts no invocation.
C9_FreshestOnly ==
    [][/\ \A h \in DOMAIN callbacks :
            Started(h) => ~syncing /\ last_event'.number = blockNumber
       /\ (last_event' # last_event /\ last_event'.number < blockNumber) =>
            ~last_event'.processing /\ callbacks' = callbacks]_vars

\* A block was delivered after a later one (4 after 6) and was ignored.
C9_Witness ==
    /\ last_event.number > 0
    /\ last_event.number < last_event.max_number
    /\ ~last_event.processing

\* The callback of the periodic task is not running.
TaskIdle == \E t \in DOMAIN tasks : tasks[t].running = 0

\* The callback of the periodic task has been fired and is running.
TaskFired == \E t \in DOMAIN tasks : tasks[t].running > 0

\* C10: periodic cadence. Whenever callback() of a task ends, by returning or
\* by raising, func() has set up exactly one new timer, due a whole interval
\* (frequency_in_seconds) later; and as time passes a task whose callback is
\* not running is fired again, unless the process has ended: the task fires
\* infinitely often while the process lives.
C10_Reschedules ==
    /\ [][\A t \in DOMAIN tasks :
            tasks'[t].running < tasks[t].running =>
                tasks'[t].timers = Append(tasks[t].timers, tasks[t].frequency)]_vars
    /\ TaskIdle ~> (TaskFired \/ pc = "terminated")

\* The callback raised and has been fired again since.
C10_Witness ==
    \E t \in DOMAIN tasks : tasks[t].raised /\ tasks[t].running > 0

\* C11: one outstanding timer. From the return of every() on, a periodic task
\* has exactly one threading.Timer that is not over: either one pending timer
\* and no func() running, or no pending timer and the one func() that the last
\* timer started still running its callback. So a firing leaves exactly one
\* pending timer behind, never none and never two, and two firings of a task
\* never overlap.
C11_OneTimer ==
    \A t \in DOMAIN tasks :
        /\ Len(tasks[t].timers) + tasks[t].running = 1
        /\ tasks[t].running <= 1

\* The callback raised, func() is over and left one pending timer.
C11_Witness ==
    \E t \in DOMAIN tasks :
        tasks[t].raised /\ tasks[t].running = 0 /\ Len(tasks[t].timers) = 1

\* The main thread is past the wait for the callback (line 65).
PastWait == pc \in {"shutdown_hook", "exit"} \/ CleanlyEnded

\* The filters are stopped (line 62).
PastStop == pc = "wait_callback" \/ PastWait

\* C12: shutdown neither preempts nor outruns the on-block callback. When the
\* shutdown hook starts, and when the process exits, the AsyncCallback that
\* __exit__ waits for has no invocation in progress; once the filters are
\* stopped no invocation starts any more; an invocation ends only by itself,
\* never by a step of the main thread; and the main thread leaves wait() only
\* when the invocation is over.
C12_NoPreemption ==
    /\ []((PastWait /\ on_block_callback # NoCallback) =>
              callbacks[on_block_callback] = 0)
    /\ [][/\ PastStop => \A h \in DOMAIN callbacks : ~Started(h)
          /\ (\E h \in DOMAIN callbacks : callbacks'[h] < callbacks[h]) =>
                UNCHANGED <<pc, exit_code, calls, filter_threads, filter_alive>>
          /\ (pc = "wait_callback" /\ pc' # pc /\ on_block_callback # NoCallback) =>
                callbacks[on_block_callback] = 0]_vars

\* The loop was left and the filters are stopped while an invocation is in
\* flight: the main thread is blocked in wait().
C12_Witness ==
    /\ pc = "wait_callback"
    /\ on_block_callback # NoCallback
    /\ callbacks[on_block_callback] = 1

\* A periodic callback is started in this step.
Fires == \E t \in DOMAIN tasks : tasks'[t].running > tasks[t].running

\* C13 as stated: when the process exits after the shutdown sequence no
\* periodic callback is executing, and no periodic task fires during or after
\* the shutdown hook.
C13_AllWorkAwaited ==
    /\ [](CleanlyEnded => \A t \in DOMAIN tasks : tasks[t].running = 0)
    /\ [][(pc \in {"shutdown_hook", "exit"} \/ CleanlyEnded) => ~Fires]_vars

\* C13, amended: the shutdown sequence waits for the on-block callback only.
\* It neither cancels the timers of a periodic task nor waits for its
\* callback: no step of the sequence changes the task, and the last step, the
\* exit, can be taken whatever the task is doing, so that a periodic callback
\* may be executing when the process exits.
C13_TimersNotAwaited ==
    /\ [][(~BeforeShutdown /\ pc' # pc) => tasks' = tasks]_vars
    /\ [](pc = "exit" => ENABLED Exit)

\* The process exited through the shutdown sequence while a periodic callback
\* was executing.
C13_Witness ==
    /\ CleanlyEnded
    /\ \E t \in DOMAIN tasks : tasks[t].running > 0

\* on_block() or every() was called.
Registered == filter_alive # <<>> \/ tasks # <<>>

Delivers ==
    \/ last_event' # last_event
    \/ last_block_time' # last_block_time /\ last_block_time' = <<0>>

\* C15: a block delivered while the node is syncing starts no invocation of
\* the on-block callback, whatever its number, and is logged as ignored; the
\* last block time is set to now all the same.
C15_SyncingDiscards ==
    [][(Delivers /\ syncing) =>
          /\ callbacks' = callbacks
          /\ ~last_event'.processing
          /\ last_block_time' = <<0>>]_vars

\* The node is syncing, its latest block was delivered and ignored, and the
\* last block time is that of the delivery; no callback is running.
C15_Witness ==
    /\ syncing
    /\ last_event.number = blockNumber
    /\ ~last_event.processing
    /\ last_block_time = <<0>>
    /\ \A h \in DOMAIN callbacks : callbacks[h] = 0

\* The number of times a call occurs in the log of the main thread's calls.
Times(c) == Cardinality({i \in DOMAIN calls : calls[i] = c})

\* C16: signals are idempotent. terminated_externally is set by a step that
\* changes nothing else, only once the handlers are installed, and is never
\* reset: whatever is delivered after the first signal leaves the state as it
\* is. However many signals arrive, each step of the shutdown sequence is
\* taken at most once.
C16_SignalIdempotent ==
    /\ [][/\ terminated_externally => terminated_externally'
          /\ terminated_externally' # terminated_externally =>
                /\ handlers_installed
                /\ UNCHANGED <<pc, exit_code, startup_function, shutdown_function,
                               terminated_internally, fatal_termination,
                               at_least_one_every, last_block_time, on_block_callback,
                               callbacks, filter_threads, filter_alive, peerCount,
                               syncing, blockNumber, handlers_installed, tasks, calls,
                               reason, last_event>>]_vars
    /\ [](\A c \in {"stop_all_filter_threads", "wait", "shutdown_function", "exit"} :
              Times(c) <= 1)

\* A signal arrived, the loop broke on it and the shutdown sequence ran, with
\* the handler still installed until the exit.
C16_Witness ==
    /\ pc = "terminated"
    /\ terminated_externally
    /\ reason = "sigint_sigterm"
    /\ Times("exit") = 1

\* The main thread is in the supervisory loop.
InLoop == pc \in {"sleep", "tick"}

\* C17: cooperative termination. A termination flag set while the main thread
\* is in the loop takes effect at the tick: the tick that finds a flag set
\* leaves the loop, the loop is left by the step of a tick only (setting a
\* flag moves the main thread nowhere), and that step touches no running
\* callback and no timer. From a state in the loop with a flag set the main
\* thread reaches the end of the process, the shutdown hook and the running
\* callback coming to an end.
C17_CooperativeTermination ==
    /\ [][/\ (Ticks /\ ~NotAsked) => pc' = "shutdown"
          /\ (InLoop /\ pc' \notin {"sleep", "tick"}) => Ticks
          /\ Ticks => (callbacks' = callbacks /\ tasks' = tasks)
          /\ (NotAsked /\ ~NotAsked') => pc' = pc]_vars
    /\ (InLoop /\ ~NotAsked) ~> (pc = "terminated")

\* Termination was asked for while the main thread sleeps in the loop and an
\* on-block callback is running.
C17_Witness ==
    /\ pc = "sleep"
    /\ ~NotAsked
    /\ \E h \in DOMAIN callbacks : callbacks[h] = 1

\* The supervisor is starting: the loop and the startup hook are still ahead.
Starting == pc \in {"constructed", "check_account", "wait_peers", "wait_sync", "startup"}

\* C18: startup ordering. The main thread goes from the account check to the
\* wait for a peer only when the check passed, leaves the wait for a peer only
\* having seen a peer, leaves the wait for the sync only having seen the node
\* not syncing, and calls the startup hook only then, at most once, before
\* _main_loop() is entered; with no peer, or with the node syncing, it stays
\* where it waits.
C18_StartupOrder ==
    /\ [](Times("startup_function") <= 1)
    /\ []("startup_function" \in Range(calls) => ~Starting)
    /\ []((startup_function /\ ~Starting /\ reason # "account_not_unlocked") =>
              "startup_function" \in Range(calls))
    /\ [][/\ (pc = "wait_peers" /\ peerCount = 0) => pc' = "wait_peers"
          /\ (pc = "wait_sync" /\ syncing) => pc' = "wait_sync"
          /\ (pc' = "wait_peers" /\ pc # "wait_peers") =>
                (pc = "check_account" /\ reason' = "none")
          /\ (pc' = "wait_sync" /\ pc # "wait_sync") =>
                (pc = "wait_peers" /\ peerCount > 0)
          /\ (pc' = "startup" /\ pc # "startup") => (pc = "wait_sync" /\ ~syncing)
          /\ (pc' = "main_loop" /\ pc # "main_loop") => pc = "startup"
          /\ (Starting /\ ~Starting') => pc' \in {"main_loop", "terminated"}
          /\ (calls' # calls /\ calls'[Len(calls')] = "startup_function") =>
                (pc = "startup" /\ pc' = "main_loop")]_vars

\* The startup hook was called and the main thread sleeps before the first
\* tick; nothing else was called.
C18_Witness ==
    /\ pc = "sleep"
    /\ startup_function
    /\ calls = <<"startup_function">>

\* __exit__ runs and has not yet returned from the startup hook.
StartingUp == pc \in {"check_account", "wait_peers", "wait_sync", "startup"}

\* C19 as stated: with on_block() and every() called before __exit__ runs, no
\* invocation of the on-block callback starts and no periodic task fires
\* while __exit__ is still checking the account, waiting for the node or about
\* to call the startup hook.
C19_NoWorkBeforeStartup ==
    [][StartingUp => (~Fires /\ \A h \in DOMAIN callbacks : ~Started(h))]_vars

\* The AsyncCallback objects with an invocation in progress.
InFlight == {h \in DOMAIN callbacks : callbacks[h] > 0}

\* C20 as stated: with on_block() called more than once, no two invocations
\* are ever in progress at the same time across all the AsyncCallback objects
\* created, and none of them has an invocation in flight when the process
\* exits through the shutdown sequence.
C20_AcrossRegistrations ==
    /\ Cardinality(InFlight) <= 1
    /\ CleanlyEnded => InFlight = {}

====
